---- MODULE Spec2Model ----
(***************************************************************************)
(* A model of dist_meta/distributions.py: the wheel filename parser        *)
(* (_parse_wheel_filename), the search over a path (iter_distributions,    *)
(* get_distribution) and the two distribution handles (Distribution,       *)
(* WheelDistribution).                                                     *)
(*                                                                         *)
(* Text is a sequence of one-character strings, so that counting,          *)
(* splitting, case folding and pattern matching are computed character by  *)
(* character as Python computes them.                                      *)
(***************************************************************************)
EXTENDS Naturals, Integers, Sequences, FiniteSets, TLC

\* ------------------------------------------------------------------------
\* Bounds of the model
\* ------------------------------------------------------------------------

\* The largest number of tag fields after the version in a wheel filename
\* (3 without a build tag, 4 with one): dash counts 0..MaxTags+1 occur.
MaxTags == 5

\* The largest number of entries of a search path.
MaxPath == 2

\* The largest number of *.dist-info entries in the file system, over all
\* of its directories.
MaxEntries == 3

\* ------------------------------------------------------------------------
\* Text
\* ------------------------------------------------------------------------

\* A Python str literal as a sequence of characters.
Str(s) == [i \in 1..Len(s) |-> SubSeq(s, i, i)]

\* One non-ASCII letter (U+00E9), a single character of a str.
EAcute == "U+00E9"

Digits == {"0", "1", "2", "3", "4", "5", "6", "7", "8", "9"}
LowerLetters == Str("abcdefghijklmnopqrstuvwxyz")
UpperLetters == Str("ABCDEFGHIJKLMNOPQRSTUVWXYZ")
AsciiLetters == {LowerLetters[i] : i \in 1..26} \cup {UpperLetters[i] : i \in 1..26}

\* int() of one decimal digit.
DigitVal(c) == CHOOSE n \in 0..9 : Str("0123456789")[n + 1] = c

\* str.lower() of one character (only the letters of the model's alphabet
\* have a case).
LowerChar(c) ==
    IF \E i \in 1..26 : UpperLetters[i] = c
    THEN LowerLetters[CHOOSE i \in 1..26 : UpperLetters[i] = c]
    ELSE c

\* str.count(ch)
Count(s, ch) == Cardinality({i \in DOMAIN s : s[i] = ch})

\* str.find(ch) + 1: the position of the first ch, 0 when there is none.
IndexOf(s, ch) ==
    IF \E i \in DOMAIN s : s[i] = ch
    THEN CHOOSE i \in DOMAIN s : s[i] = ch /\ \A j \in 1..(i - 1) : s[j] /= ch
    ELSE 0

\* str.rfind(ch) + 1: the position of the last ch, 0 when there is none.
RIndexOf(s, ch) ==
    IF \E i \in DOMAIN s : s[i] = ch
    THEN CHOOSE i \in DOMAIN s : s[i] = ch /\ \A j \in (i + 1)..Len(s) : s[j] /= ch
    ELSE 0

\* str.split(ch, maxsplit) for maxsplit >= 0: at most maxsplit splits, from
\* the left; the last part keeps the remaining separators.
RECURSIVE SplitMax(_, _, _)
SplitMax(s, ch, maxsplit) ==
    LET i == IndexOf(s, ch)
    IN  IF maxsplit = 0 \/ i = 0
        THEN <<s>>
        ELSE <<SubSeq(s, 1, i - 1)>> \o SplitMax(SubSeq(s, i + 1, Len(s)), ch, maxsplit - 1)

\* str.split(ch): every separator splits.
Split(s, ch) == SplitMax(s, ch, Len(s))

\* ch.join(parts)
RECURSIVE Join(_, _)
Join(parts, ch) ==
    IF Len(parts) = 0 THEN <<>>
    ELSE IF Len(parts) = 1 THEN parts[1]
    ELSE parts[1] \o <<ch>> \o Join(Tail(parts), ch)

\* PurePath.suffix of a final path component: the text from the last dot on,
\* empty when the last dot is the first or the last character or is missing.
Suffix(name) ==
    LET i == RIndexOf(name, ".")
    IN  IF 1 < i /\ i < Len(name) THEN SubSeq(name, i, Len(name)) ELSE <<>>

\* PurePath.stem of a final path component: the name without its suffix.
Stem(name) ==
    LET i == RIndexOf(name, ".")
    IN  IF 1 < i /\ i < Len(name) THEN SubSeq(name, 1, i - 1) ELSE name

\* ------------------------------------------------------------------------
\* packaging.version.Version
\* ------------------------------------------------------------------------

IsDigits(s) == Len(s) > 0 /\ \A i \in DOMAIN s : s[i] \in Digits

\* int() of a run of decimal digits ("01" is 1).
RECURSIVE ParseInt(_)
ParseInt(s) ==
    IF Len(s) = 0 THEN 0
    ELSE 10 * ParseInt(SubSeq(s, 1, Len(s) - 1)) + DigitVal(s[Len(s)])

\* Whether Version(text) parses.  The model's texts are written with digits,
\* '.', '-' and letters that start no PEP 440 tag at the place they stand; on
\* those PEP 440 accepts exactly a dotted-numeric release with an optional
\* "-N" (the implicit post release).
VersionIsValid(text) ==
    LET d == IndexOf(text, "-")
        rel == IF d = 0 THEN text ELSE SubSeq(text, 1, d - 1)
        post == IF d = 0 THEN <<>> ELSE SubSeq(text, d + 1, Len(text))
        groups == Split(rel, ".")
    IN  /\ \A i \in DOMAIN groups : IsDigits(groups[i])
        /\ d = 0 \/ IsDigits(post)

\* Version(text): the parsed version, or the InvalidVersion it raises.
Version(text) ==
    IF ~VersionIsValid(text)
    THEN [kind |-> "InvalidVersion", arg |-> text]
    ELSE LET d == IndexOf(text, "-")
             rel == IF d = 0 THEN text ELSE SubSeq(text, 1, d - 1)
             groups == Split(rel, ".")
         IN  [kind |-> "Version",
              release |-> [i \in DOMAIN groups |-> ParseInt(groups[i])],
              post |-> IF d = 0 THEN <<>>
                       ELSE <<ParseInt(SubSeq(text, d + 1, Len(text)))>>]

\* ------------------------------------------------------------------------
\* _parse_wheel_filename
\* ------------------------------------------------------------------------

\* What \w matches under re.UNICODE in a str pattern: letters and digits of
\* any script, and the underscore.
IsWordChar(c) == c \in AsciiLetters \/ c \in Digits \/ c = "_" \/ c = EAcute

\* re.match(r"^[\w\d._]*$", name, re.UNICODE) is not None: every character
\* is in the class; '$' also matches just before one trailing newline.
NamePatternMatches(name) ==
    LET body == IF Len(name) > 0 /\ name[Len(name)] = "\n"
                THEN SubSeq(name, 1, Len(name) - 1)
                ELSE name
    IN  \A i \in DOMAIN body : IsWordChar(body[i]) \/ body[i] = "."

\* "__" in name
HasDoubleUnderscore(name) ==
    \E i \in 1..(Len(name) - 1) : name[i] = "_" /\ name[i + 1] = "_"

\* A parser that accepts one dash more than the wheel format has.
DashCountOk_Wide(dashes) == dashes \in {4, 5, 6}

\* dashes in (4, 5)
DashCountOk(dashes) == dashes \in {4, 5}

\* A parser that takes the version one field too far to the right.
WheelParts_ShiftedVersion(stem, dashes) ==
    LET p == Split(stem, "-") IN <<p[1], p[3]>>

\* The parts the parser splits the stem into: split('-', dashes - 2).
WheelParts(stem, dashes) == SplitMax(stem, "-", dashes - 2)

\* A name check that forgets the double underscore.
NameRejected_PatternOnly(name) == ~NamePatternMatches(name)

\* The name check of the parser: TRUE when the name is rejected.
NameRejected(name) == HasDoubleUnderscore(name) \/ ~NamePatternMatches(name)

\* _parse_wheel_filename(filename): (name, version), or the error raised.
\* An InvalidWheelFilename carries what its message names (arg).
ParseWheelFilename(filename) ==
    IF Suffix(filename) /= Str(".whl")
    THEN [kind |-> "InvalidWheelFilename", why |-> "extension", arg |-> filename]
    ELSE LET stem == Stem(filename)
             dashes == Count(stem, "-")
         IN  IF ~DashCountOk(dashes)
             THEN [kind |-> "InvalidWheelFilename", why |-> "parts", arg |-> filename]
             ELSE LET parts == WheelParts(stem, dashes)
                      name == parts[1]
                  IN  IF NameRejected(name)
                      THEN [kind |-> "InvalidWheelFilename", why |-> "name", arg |-> name]
                      ELSE LET version == Version(parts[2])
                           IN  IF version.kind = "InvalidVersion"
                               THEN version
                               ELSE [kind |-> "ok", name |-> name, version |-> version]

\* ------------------------------------------------------------------------
\* canonicalize_name, divide, Distribution.from_path
\* ------------------------------------------------------------------------

Separators == {"-", "_", "."}

\* re.sub(r"[-_.]+", "-", name): every run of separators becomes one '-'.
RECURSIVE CollapseSeparators(_)
CollapseSeparators(s) ==
    IF Len(s) = 0 THEN <<>>
    ELSE IF s[1] \notin Separators THEN <<s[1]>> \o CollapseSeparators(Tail(s))
    ELSE IF Len(s) > 1 /\ s[2] \in Separators THEN CollapseSeparators(Tail(s))
    ELSE <<"-">> \o CollapseSeparators(Tail(s))

\* canonicalize_name(name): separators collapsed, then lower case.
canonicalize_name(name) ==
    LET c == CollapseSeparators(name) IN [i \in DOMAIN c |-> LowerChar(c[i])]

\* divide(string, '-'): the text before and after the first '-'; ValueError
\* when there is none.
divide(string) ==
    LET i == IndexOf(string, "-")
    IN  IF i = 0
        THEN [kind |-> "ValueError", arg |-> string]
        ELSE [kind |-> "ok", head |-> SubSeq(string, 1, i - 1),
              tail |-> SubSeq(string, i + 1, Len(string))]

\* Distribution.from_path(path), path = <<folder, entry>>: the distribution
\* named by the entry's stem, or the error raised by divide or by Version.
DistributionFromPath(path) ==
    LET distro_name_version == Stem(path[2])
        parts == divide(distro_name_version)
    IN  IF parts.kind = "ValueError" THEN parts
        ELSE LET version == Version(parts.tail)
             IN  IF version.kind = "InvalidVersion" THEN version
                 ELSE [kind |-> "Distribution", name |-> parts.head,
                       version |-> version, path |-> path]

\* ------------------------------------------------------------------------
\* The file system and the search path
\* ------------------------------------------------------------------------

\* The directories of the file system.
Dirs == {"d1", "d2"}

\* What a search path may name: the directories, and one entry that is not a
\* directory.
PathEntries == Dirs \cup {"nf"}

\* folder.is_dir()
IsDir(folder) == folder \in Dirs

DistInfo == Str(".dist-info")

\* The *.dist-info entries a directory may hold: two spellings of one
\* normalized name, another name, an entry without '-' and an entry whose
\* version is none.
Entries ==
    {Str("A_b-1.0") \o DistInfo, Str("a.b-2") \o DistInfo, Str("c-1") \o DistInfo,
     Str("nodash") \o DistInfo, Str("c-x") \o DistInfo}

\* The listings a directory may have, in the order glob gives them: no
\* entry twice.
Listings ==
    {l \in UNION {[1..n -> Entries] : n \in 0..MaxEntries} :
        \A i, j \in DOMAIN l : i /= j => l[i] /= l[j]}

FileSystems ==
    {f \in [Dirs -> Listings] : Len(f["d1"]) + Len(f["d2"]) <= MaxEntries}

SearchPaths == UNION {[1..n -> PathEntries] : n \in 0..MaxPath}

\* folder.glob("*.dist-info") in file system f
Glob(f, folder) == f[folder]

\* ------------------------------------------------------------------------
\* iter_distributions
\* ------------------------------------------------------------------------

\* The frame of the generator: the position in the path (i), the position in
\* the current folder's listing (j), distro_names_seen, and whether the
\* generator has finished.
NewGenerator == [i |-> 1, j |-> 1, seen |-> {}, finished |-> FALSE]

StopIteration == [kind |-> "StopIteration"]

\* A call whose set of seen names starts from that of another call's
\* generator.
CallFrame_SharedSeen(other) == [NewGenerator EXCEPT !.seen = other.seen]

\* iter_distributions(path), called while another generator exists: the
\* frame of the new generator has its own distro_names_seen, an empty set.
CallFrame(other) == NewGenerator

\* A search that remembers the names as they are spelt.
SeenKey_Raw(distro) == distro.name

\* normalized_name = canonicalize_name(distro.name)
SeenKey(distro) == canonicalize_name(distro.name)

\* A generator that passes over an entry that is no distribution and goes on
\* with the next one.
RECURSIVE GeneratorNext_Skipping(_, _, _)
GeneratorNext_Skipping(g, p, f) ==
    IF g.finished \/ g.i > Len(p)
    THEN [gen |-> [g EXCEPT !.finished = TRUE], out |-> StopIteration]
    ELSE IF ~IsDir(p[g.i])
    THEN GeneratorNext_Skipping([g EXCEPT !.i = @ + 1, !.j = 1], p, f)
    ELSE IF g.j > Len(Glob(f, p[g.i]))
    THEN GeneratorNext_Skipping([g EXCEPT !.i = @ + 1, !.j = 1], p, f)
    ELSE LET distro == DistributionFromPath(<<p[g.i], Glob(f, p[g.i])[g.j]>>)
         IN  IF distro.kind /= "Distribution"
             THEN GeneratorNext_Skipping([g EXCEPT !.j = @ + 1], p, f)
             ELSE IF SeenKey(distro) \in g.seen
             THEN GeneratorNext_Skipping([g EXCEPT !.j = @ + 1], p, f)
             ELSE [gen |-> [g EXCEPT !.j = @ + 1, !.seen = @ \cup {SeenKey(distro)}],
                   out |-> distro]

\* next() on the generator g of iter_distributions(p) in file system f: runs
\* the loops up to the next yield, the end of the path or an exception.  gen
\* is the frame afterwards, out the distribution yielded, StopIteration or
\* the exception raised.
RECURSIVE GeneratorNext(_, _, _)
GeneratorNext(g, p, f) ==
    IF g.finished \/ g.i > Len(p)
    THEN [gen |-> [g EXCEPT !.finished = TRUE], out |-> StopIteration]
    ELSE IF ~IsDir(p[g.i])
    THEN GeneratorNext([g EXCEPT !.i = @ + 1, !.j = 1], p, f)
    ELSE IF g.j > Len(Glob(f, p[g.i]))
    THEN GeneratorNext([g EXCEPT !.i = @ + 1, !.j = 1], p, f)
    ELSE LET distro == DistributionFromPath(<<p[g.i], Glob(f, p[g.i])[g.j]>>)
         IN  IF distro.kind /= "Distribution"
             THEN [gen |-> [g EXCEPT !.finished = TRUE], out |-> distro]
             ELSE IF SeenKey(distro) \in g.seen
             THEN GeneratorNext([g EXCEPT !.j = @ + 1], p, f)
             ELSE [gen |-> [g EXCEPT !.j = @ + 1, !.seen = @ \cup {SeenKey(distro)}],
                   out |-> distro]

\* ------------------------------------------------------------------------
\* get_distribution
\* ------------------------------------------------------------------------

\* A lookup that compares the names as they are spelt.
NameMatches_Raw(distro, name) == distro.name = name

\* A lookup that normalizes the found name only.
NameMatches_OneSided(distro, name) == canonicalize_name(distro.name) = name

\* canonicalize_name(distro.name) == canonicalize_name(name)
NameMatches(distro, name) == canonicalize_name(distro.name) = canonicalize_name(name)

\* The for loop of get_distribution over the generator g.
RECURSIVE GetDistributionLoop(_, _, _, _)
GetDistributionLoop(name, g, p, f) ==
    LET r == GeneratorNext(g, p, f)
    IN  IF r.out.kind = "StopIteration"
        THEN [kind |-> "DistributionNotFoundError", arg |-> name]
        ELSE IF r.out.kind /= "Distribution"
        THEN r.out
        ELSE IF NameMatches(r.out, name)
        THEN r.out
        ELSE GetDistributionLoop(name, r.gen, p, f)

\* get_distribution(name, path=p) in file system f: the distribution
\* returned, or the exception raised.
get_distribution(name, p, f) == GetDistributionLoop(name, NewGenerator, p, f)

\* The calls of get_distribution that are followed: two, to compare them.
CallIds == {"first", "second"}

\* The names asked for.
RequestNames == {Str("A.B"), Str("a-b"), Str("C"), Str("zz")}

\* ------------------------------------------------------------------------
\* The files of a distribution and their parsers
\* ------------------------------------------------------------------------

\* The files looked for in a *.dist-info directory.
FileNames == {"METADATA", "WHEEL", "RECORD", "entry_points.txt"}

\* The lines of the RECORD file: path, hash and size fields; the line of
\* RECORD itself has neither hash nor size.
RecordLines ==
    <<[path |-> "ab/__init__.py", hash |-> Str("sha256=q1Zw"), size |-> Str("12")],
      [path |-> "ab-1.0.dist-info/RECORD", hash |-> <<>>, size |-> <<>>]>>

\* The content of each file, as read_text returns it.
FileText(name) ==
    IF name = "RECORD" THEN [kind |-> "text", of |-> name, lines |-> RecordLines]
    ELSE [kind |-> "text", of |-> name, lines |-> <<>>]

\* metadata.loads(text), wheel.loads(text), entry_points.loads(text): the
\* mapping parsed from the text.
metadata_loads(text) == [kind |-> "mapping", parser |-> "metadata.loads", text |-> text]

wheel_loads(text) == [kind |-> "mapping", parser |-> "wheel.loads", text |-> text]

entry_points_loads(text) ==
    [kind |-> "mapping", parser |-> "entry_points.loads", text |-> text]

\* {} of get_entry_points
EmptyMapping == [kind |-> "mapping", parser |-> "none", text |-> <<>>]

None == [kind |-> "None"]

\* One manifest entry of a RECORD line, owned by distro: "algorithm=digest"
\* is split on the first '='; the size is an integer.
RecordEntry(line, distro) ==
    LET eq == IndexOf(line.hash, "=")
    IN  [path |-> line.path,
         hash |-> IF Len(line.hash) = 0 THEN <<>>
                  ELSE <<SubSeq(line.hash, 1, eq - 1),
                         SubSeq(line.hash, eq + 1, Len(line.hash))>>,
         size |-> IF Len(line.size) = 0 THEN <<>> ELSE <<ParseInt(line.size)>>,
         distro |-> distro]

\* The Record Parser: one entry per line, in order, each owned by distro.
ParseRecord(text, distro) ==
    [kind |-> "list",
     items |-> [k \in DOMAIN text.lines |-> RecordEntry(text.lines[k], distro)]]

\* ------------------------------------------------------------------------
\* Distribution (the loose form)
\* ------------------------------------------------------------------------

\* The handle of the model: Distribution.from_path of one *.dist-info
\* directory.
TheDistribution == DistributionFromPath(<<"d1", Str("ab-1.0") \o DistInfo>>)

\* A has_file that finds every file.
Distribution_has_file_Always(files, name) == [kind |-> "bool", value |-> TRUE]

\* Distribution.has_file(name): (self.path / name).is_file(), in a directory
\* holding files.
Distribution_has_file(files, name) == [kind |-> "bool", value |-> name \in files]

\* Distribution.read_file(name): (self.path / name).read_text()
Distribution_read_file(files, name) ==
    IF name \in files THEN FileText(name)
    ELSE [kind |-> "FileNotFoundError", arg |-> name]

\* Distribution.get_entry_points()
Distribution_get_entry_points(files) ==
    IF Distribution_has_file(files, "entry_points.txt").value
    THEN LET text == Distribution_read_file(files, "entry_points.txt")
         IN  IF text.kind = "text" THEN entry_points_loads(text) ELSE text
    ELSE EmptyMapping

\* Distribution.get_metadata()
Distribution_get_metadata(files) ==
    LET text == Distribution_read_file(files, "METADATA")
    IN  IF text.kind = "text" THEN metadata_loads(text) ELSE text

\* Distribution.get_wheel()
Distribution_get_wheel(files) ==
    IF Distribution_has_file(files, "WHEEL").value
    THEN LET text == Distribution_read_file(files, "WHEEL")
         IN  IF text.kind = "text" THEN wheel_loads(text) ELSE text
    ELSE None

\* Distribution.get_record(): None without a RECORD file, else its entries,
\* each owned by the distribution itself.
Distribution_get_record(self, files) ==
    IF Distribution_has_file(files, "RECORD").value
    THEN LET text == Distribution_read_file(files, "RECORD")
         IN  IF text.kind = "text" THEN ParseRecord(text, self) ELSE text
    ELSE None

\* ------------------------------------------------------------------------
\* The archive (handy_archives.ZipFile)
\* ------------------------------------------------------------------------

\* The directory the archive keeps its metadata in.
ArchiveDistInfo == Str("ab-1.0") \o DistInfo

\* The archive before ZipFile(path, 'r') has opened it.
ZipUnopened == [fp |-> "unopened", releases |-> 0]

\* ZipFile(path, 'r')
ZipOpen == [fp |-> "open", releases |-> 0]

\* ZipFile.close(): releases the file once; closing a closed archive does
\* nothing.
ZipClose(z) ==
    IF z.fp = "open" THEN [fp |-> "closed", releases |-> z.releases + 1] ELSE z

\* ZipFile.namelist(): the member list is kept in memory, also after close.
ZipNamelist(m) == m

\* ZipFile.read_text(member): ValueError on a closed archive,
\* FileNotFoundError when the archive has no such member.
ZipReadText(z, m, member) ==
    IF z.fp /= "open" THEN [kind |-> "ValueError", arg |-> "closed"]
    ELSE IF member \notin m THEN [kind |-> "FileNotFoundError", arg |-> member[2]]
    ELSE FileText(member[2])

\* ------------------------------------------------------------------------
\* WheelDistribution (the archived form)
\* ------------------------------------------------------------------------

NoHandle == [kind |-> "no handle"]

\* str(n) of a natural number
RECURSIVE IntToStr(_)
IntToStr(n) ==
    IF n < 10 THEN <<Str("0123456789")[n + 1]>>
    ELSE IntToStr(n \div 10) \o <<Str("0123456789")[(n % 10) + 1]>>

\* str(version): the release joined by dots, then ".postN".
VersionStr(v) ==
    Join([i \in DOMAIN v.release |-> IntToStr(v.release[i])], ".")
        \o (IF Len(v.post) = 0 THEN <<>> ELSE Str(".post") \o IntToStr(v.post[1]))

\* A from_path that opens the archive first and parses the filename after.
WheelDistribution_from_path_OpenFirst(wheelpath, z) ==
    LET p == ParseWheelFilename(wheelpath)
    IN  IF p.kind /= "ok"
        THEN [handle |-> NoHandle, zip |-> ZipOpen, out |-> p]
        ELSE LET h == [kind |-> "WheelDistribution", name |-> p.name,
                       version |-> p.version, path |-> wheelpath,
                       wheel_zip |-> "zip"]
             IN  [handle |-> h, zip |-> ZipOpen, out |-> h]

\* WheelDistribution.from_path(path): the filename is parsed, then the
\* archive is opened.  handle is the distribution made (NoHandle when the
\* parse raises), zip the archive afterwards, out what is returned or raised.
WheelDistribution_from_path(wheelpath, z) ==
    LET p == ParseWheelFilename(wheelpath)
    IN  IF p.kind /= "ok"
        THEN [handle |-> NoHandle, zip |-> z, out |-> p]
        ELSE LET h == [kind |-> "WheelDistribution", name |-> p.name,
                       version |-> p.version, path |-> wheelpath,
                       wheel_zip |-> "zip"]
             IN  [handle |-> h, zip |-> ZipOpen, out |-> h]

\* WheelDistribution.__enter__()
WheelDistribution_enter(self) == self

\* An __exit__ that leaves the archive open.
WheelDistribution_exit_NoClose(z) == [zip |-> z, ret |-> None]

\* WheelDistribution.__exit__(exc_type, exc_val, exc_tb): closes the archive
\* and returns None, which passes an exception of the body on.
WheelDistribution_exit(z) == [zip |-> ZipClose(z), ret |-> None]

\* posixpath.join(dist_info, filename), as the pair of its two components
MemberPath(self, name) ==
    <<self.name \o <<"-">> \o VersionStr(self.version) \o DistInfo, name>>

\* WheelDistribution.read_file(name)
WheelDistribution_read_file(self, z, m, name) == ZipReadText(z, m, MemberPath(self, name))

\* WheelDistribution.has_file(name)
WheelDistribution_has_file(self, z, m, name) ==
    [kind |-> "bool", value |-> MemberPath(self, name) \in ZipNamelist(m)]

\* WheelDistribution.get_entry_points()
WheelDistribution_get_entry_points(self, z, m) ==
    IF WheelDistribution_has_file(self, z, m, "entry_points.txt").value
    THEN LET text == WheelDistribution_read_file(self, z, m, "entry_points.txt")
         IN  IF text.kind = "text" THEN entry_points_loads(text) ELSE text
    ELSE EmptyMapping

\* WheelDistribution.get_metadata()
WheelDistribution_get_metadata(self, z, m) ==
    LET text == WheelDistribution_read_file(self, z, m, "METADATA")
    IN  IF text.kind = "text" THEN metadata_loads(text) ELSE text

\* A get_wheel that looks first, as the loose form does.
WheelDistribution_get_wheel_Look(self, z, m) ==
    IF WheelDistribution_has_file(self, z, m, "WHEEL").value
    THEN LET text == WheelDistribution_read_file(self, z, m, "WHEEL")
         IN  IF text.kind = "text" THEN wheel_loads(text) ELSE text
    ELSE None

\* WheelDistribution.get_wheel()
WheelDistribution_get_wheel(self, z, m) ==
    LET text == WheelDistribution_read_file(self, z, m, "WHEEL")
    IN  IF text.kind = "text" THEN wheel_loads(text) ELSE text

\* WheelDistribution.get_record(): None without a RECORD member, else its
\* entries, which are owned by no distribution (distro is None).
WheelDistribution_get_record(self, z, m) ==
    IF WheelDistribution_has_file(self, z, m, "RECORD").value
    THEN LET text == WheelDistribution_read_file(self, z, m, "RECORD")
         IN  IF text.kind = "text" THEN ParseRecord(text, None) ELSE text
    ELSE None

\* The wheel files a WheelDistribution is made from: one that parses (its
\* version written "01.0"), and one for each way the parse fails.
WheelPaths ==
    {Str("ab-01.0-t-t-t.whl"), Str("ab-1.0-t-t-t.zip"), Str("ab-1.0-t-t.whl"),
     Str("a__b-1.0-t-t-t.whl"), Str("ab-x-t-t-t.whl")}

\* What a with statement's body may do: run to its end, return, or raise.
BodyEnds == {"normal", "return", "raise"}

\* The exception a body raises.
BodyError == [kind |-> "RuntimeError", arg |-> "raised in the body"]

\* No with statement has been entered.
OutOfScope == [pc |-> "out", target |-> NoHandle, body |-> "none", propagated |-> None]

\* ------------------------------------------------------------------------
\* Inputs of the parser
\* ------------------------------------------------------------------------

NameSegs ==
    {Str("ab"), Str("a_b"), Str("A.b1"), Str("a__b"), Str("a?b"), <<>>,
     Str("caf") \o <<EAcute>>, Str("ab\n"), Str("a\nb")}

VerSegs == {Str("1.0"), Str("01.2"), Str("x"), <<>>}

TagSegs == {Str("t"), Str("2")}

Exts == {Str(".whl"), Str(".WHL"), Str(".gz"), Str(".whl.gz"), <<>>}

TagLists == UNION {[1..n -> TagSegs] : n \in 0..MaxTags}

\* Every filename is a '-'-join of dash-free fields followed by an extension.
WheelFilenames ==
    {n \o e : n \in NameSegs, e \in Exts} \cup
    {Join(<<n, v>> \o t, "-") \o e :
        n \in NameSegs, v \in VerSegs, t \in TagLists, e \in Exts}

NotCalled == [kind |-> "not called"]

VARIABLES
    filename,   \* the argument of _parse_wheel_filename
    parsed,     \* what the call returned or raised, NotCalled before it
    fs,         \* the file system: the listing of each directory
    path,       \* the search path
    it,         \* the frame of the generator made by iter_distributions(path)
    yielded,    \* the distributions the generator has yielded, in order
    raised,     \* the exception that ended the iteration, NotCalled if none
    gd,         \* the calls of get_distribution: of each, its name and outcome
    it2,        \* the frame of the generator of a second call, NotCalled before
    yielded2,   \* the distributions the second generator has yielded, in order
    raised2,    \* the exception that ended the second iteration, if any
    dfiles,     \* the files in the *.dist-info directory of TheDistribution
    zmembers,   \* the members of the archive
    wpath,      \* the path of the wheel file
    wd,         \* the WheelDistribution made from wpath, NoHandle before
    zip,        \* the archive handle: its fp, and how often it was released
    scope,      \* the with statement on wd: where it is, its target, its end
    last        \* the last call on a handle: the method, its input, its outcome

parseVars == <<filename, parsed>>

searchVars == <<fs, path, it, yielded, raised, gd, it2, yielded2, raised2>>

handleVars == <<dfiles, zmembers, wpath, wd, zip, scope, last>>

vars == <<filename, parsed, fs, path, it, yielded, raised, gd, it2, yielded2, raised2,
          dfiles, zmembers, wpath, wd, zip, scope, last>>

\* No handle is in use.
HandleIdle ==
    /\ dfiles = {}
    /\ zmembers = {}
    /\ wpath = <<>>
    /\ wd = NoHandle
    /\ zip = ZipUnopened
    /\ scope = OutOfScope
    /\ last = NotCalled

\* No wheel filename is being parsed.
ParseIdle ==
    /\ filename = <<>>
    /\ parsed = NotCalled

\* An empty file system, nothing searched.
SearchIdle ==
    /\ fs = [d \in Dirs |-> <<>>]
    /\ path = <<>>
    /\ it = NewGenerator
    /\ yielded = <<>>
    /\ raised = NotCalled
    /\ gd = [c \in CallIds |-> NotCalled]
    /\ it2 = NotCalled
    /\ yielded2 = <<>>
    /\ raised2 = NotCalled

InitParse ==
    /\ filename \in WheelFilenames
    /\ parsed = NotCalled
    /\ SearchIdle
    /\ HandleIdle

\* The call _parse_wheel_filename(filename).
CallParseWheelFilename ==
    /\ parsed = NotCalled
    /\ parsed' = ParseWheelFilename(filename)
    /\ UNCHANGED <<filename, searchVars, handleVars>>

NextParse == CallParseWheelFilename

SpecParse == InitParse /\ [][NextParse]_vars

\* ------------------------------------------------------------------------
\* Claims about _parse_wheel_filename (checked under SpecParse)
\* ------------------------------------------------------------------------

\* The filename ends in the four characters ".whl".
EndsWithWhl(f) == Len(f) >= 4 /\ SubSeq(f, Len(f) - 3, Len(f)) = Str(".whl")

\* The filename without its last four characters.
WithoutWhl(f) == SubSeq(f, 1, Len(f) - 4)

\* The position of the second '-' of a text with at least two.
SecondDash(s) ==
    CHOOSE i \in DOMAIN s : s[i] = "-" /\ Count(SubSeq(s, 1, i), "-") = 2

TextBeforeFirstDash(s) == SubSeq(s, 1, IndexOf(s, "-") - 1)

TextBetweenFirstAndSecondDash(s) == SubSeq(s, IndexOf(s, "-") + 1, SecondDash(s) - 1)

\* The filename with build tag b put in after the version.
WithBuildTag(f, b) ==
    SubSeq(f, 1, SecondDash(f)) \o b \o <<"-">> \o SubSeq(f, SecondDash(f) + 1, Len(f))

\* The call was made on a filename that passes the extension and the dash
\* count checks.
ParsedWellFormed ==
    /\ parsed /= NotCalled
    /\ EndsWithWhl(filename)
    /\ filename /= Str(".whl")
    /\ Count(WithoutWhl(filename), "-") \in {4, 5}

\* ASCII letters, digits, dots and underscores only, and no "__".
AsciiAllowedName(name) ==
    /\ \A i \in DOMAIN name : name[i] \in AsciiLetters \cup Digits \cup {".", "_"}
    /\ ~\E i \in 1..(Len(name) - 1) : name[i] = "_" /\ name[i + 1] = "_"

\* Letters and digits of any script, dots and underscores only, one trailing
\* newline allowed, and no "__".
UnicodeAllowedName(name) ==
    /\ \A i \in DOMAIN name :
          \/ name[i] \in AsciiLetters \cup Digits \cup {".", "_", EAcute}
          \/ i = Len(name) /\ name[i] = "\n"
    /\ ~\E i \in 1..(Len(name) - 1) : name[i] = "_" /\ name[i + 1] = "_"

\* C6: whenever the filename does not end in ".whl", the parser raises
\* InvalidWheelFilename for the extension, naming the filename; whenever it
\* does and the number of '-' before the extension is not 4 or 5, the parser
\* raises InvalidWheelFilename naming the filename, for the number of parts
\* (for the extension when the filename is ".whl" alone); in neither case is
\* the name or the version looked at.
C6_ExtensionThenDashCount ==
    parsed /= NotCalled =>
        /\ ~EndsWithWhl(filename) =>
              parsed = [kind |-> "InvalidWheelFilename", why |-> "extension",
                        arg |-> filename]
        /\ (EndsWithWhl(filename) /\ Count(WithoutWhl(filename), "-") \notin {4, 5}) =>
              /\ parsed.kind = "InvalidWheelFilename"
              /\ parsed.arg = filename
              /\ parsed.why = IF filename = Str(".whl") THEN "extension" ELSE "parts"

\* C6 witness: a filename with ".whl", six dashes and a name the parser
\* would reject was refused for its number of parts.
C6_Witness ==
    /\ parsed /= NotCalled
    /\ EndsWithWhl(filename)
    /\ Count(WithoutWhl(filename), "-") = 6
    /\ TextBeforeFirstDash(filename) = Str("a__b")
    /\ parsed.kind = "InvalidWheelFilename"
    /\ parsed.why = "parts"

\* C7: for a filename ending in ".whl" with 4 or 5 dashes before it and a
\* name of ASCII letters, digits, dots and underscores without "__", the
\* parser returns (name, Version(text)) with name the text before the first
\* dash and text the text between the first and the second dash (and raises
\* Version's own error when that text is no version); with 4 dashes, putting
\* any build tag in after the version gives the same result.
C7_NameAndVersionOnly ==
    (ParsedWellFormed /\ AsciiAllowedName(TextBeforeFirstDash(filename))) =>
        LET name == TextBeforeFirstDash(filename)
            text == TextBetweenFirstAndSecondDash(filename)
        IN  /\ parsed = IF VersionIsValid(text)
                        THEN [kind |-> "ok", name |-> name, version |-> Version(text)]
                        ELSE [kind |-> "InvalidVersion", arg |-> text]
            /\ Count(WithoutWhl(filename), "-") = 4 =>
                  \A b \in TagSegs :
                      ParseWheelFilename(WithBuildTag(filename, b)) = parsed

\* C7 witness: a filename with a build tag (5 dashes) was parsed into its
\* name and the version 1.2 written "01.2".
C7_Witness ==
    /\ ParsedWellFormed
    /\ Count(WithoutWhl(filename), "-") = 5
    /\ parsed.kind = "ok"
    /\ parsed.name = Str("A.b1")
    /\ parsed.version.release = <<1, 2>>

\* C8 as stated: with the extension and the dash count right, every name
\* that is not made of ASCII letters, digits, dots and underscores only, or
\* that holds "__", is refused with InvalidWheelFilename naming the name.
C8_AsciiOnly ==
    (ParsedWellFormed /\ ~AsciiAllowedName(TextBeforeFirstDash(filename))) =>
        parsed = [kind |-> "InvalidWheelFilename", why |-> "name",
                  arg |-> TextBeforeFirstDash(filename)]

\* C8 amended: with the extension and the dash count right, the name passes
\* the name check exactly when it holds no "__" and is made of letters and
\* digits of any script, dots and underscores, with one trailing newline
\* allowed; every other name is refused with InvalidWheelFilename naming the
\* name.
C8_UnicodeWordChars ==
    ParsedWellFormed =>
        LET name == TextBeforeFirstDash(filename)
        IN  IF UnicodeAllowedName(name)
            THEN parsed.kind \in {"ok", "InvalidVersion"}
            ELSE parsed = [kind |-> "InvalidWheelFilename", why |-> "name",
                           arg |-> name]

\* C8 witness: a name with a non-ASCII letter passed the name check.
C8_Witness ==
    /\ ParsedWellFormed
    /\ parsed.kind = "ok"
    /\ \E i \in DOMAIN parsed.name : parsed.name[i] = EAcute

\* ------------------------------------------------------------------------
\* The search: one call of iter_distributions, consumed step by step
\* ------------------------------------------------------------------------

InitIter ==
    /\ fs \in FileSystems
    /\ path \in SearchPaths
    /\ it = NewGenerator
    /\ yielded = <<>>
    /\ raised = NotCalled
    /\ gd = [c \in CallIds |-> NotCalled]
    /\ it2 = NotCalled
    /\ yielded2 = <<>>
    /\ raised2 = NotCalled
    /\ ParseIdle
    /\ HandleIdle

\* next(it): the consumer takes the next distribution, or the iteration
\* ends, normally or with the exception of a malformed entry.
IterNext ==
    /\ ~it.finished
    /\ LET r == GeneratorNext(it, path, fs)
       IN  /\ it' = r.gen
           /\ yielded' = IF r.out.kind = "Distribution"
                         THEN Append(yielded, r.out) ELSE yielded
           /\ raised' = IF r.out.kind \in {"Distribution", "StopIteration"}
                        THEN raised ELSE r.out
    /\ UNCHANGED <<fs, path, gd, it2, yielded2, raised2, parseVars, handleVars>>

NextIter == IterNext

SpecIter == InitIter /\ [][NextIter]_vars

\* The normalized name of what a *.dist-info entry is called: of the text
\* before the first '-' of the entry without ".dist-info".
EntryNormalizedName(entry) ==
    canonicalize_name(
        TextBeforeFirstDash(SubSeq(entry, 1, Len(entry) - Len(DistInfo))))

\* Directory path[q] holds an entry of normalized name n.
HoldsName(q, n) ==
    /\ IsDir(path[q])
    /\ \E k \in DOMAIN fs[path[q]] :
          /\ Count(fs[path[q]][k], "-") >= 2
          /\ EntryNormalizedName(fs[path[q]][k]) = n

\* C1: within one call of iter_distributions no two yielded distributions
\* have the same normalized name, and each yielded distribution is an entry
\* of the first directory of the path, in path order, that holds an entry of
\* its normalized name.
C1_FirstDirectoryWins ==
    /\ \A a, b \in DOMAIN yielded :
          a /= b => canonicalize_name(yielded[a].name) /= canonicalize_name(yielded[b].name)
    /\ \A a \in DOMAIN yielded :
          LET d == yielded[a]
              n == canonicalize_name(d.name)
          IN  /\ \E k \in DOMAIN fs[d.path[1]] : fs[d.path[1]][k] = d.path[2]
              /\ EntryNormalizedName(d.path[2]) = n
              /\ \E q \in DOMAIN path :
                    /\ path[q] = d.path[1]
                    /\ HoldsName(q, n)
                    /\ \A q2 \in 1..(q - 1) : ~HoldsName(q2, n)

\* C1 witness: the iteration over <<d1, d2>> has ended normally; it yielded
\* "A_b" from d1 while d2 holds "a.b", of the same normalized name, and it
\* yielded something from d2 as well.
C1_Witness ==
    /\ it.finished
    /\ raised = NotCalled
    /\ path = <<"d1", "d2">>
    /\ \E a \in DOMAIN yielded :
          yielded[a].name = Str("A_b") /\ yielded[a].path[1] = "d1"
    /\ \E k \in DOMAIN fs["d2"] : fs["d2"][k] = Str("a.b-2") \o DistInfo
    /\ \E a \in DOMAIN yielded : yielded[a].path[1] = "d2"

\* ------------------------------------------------------------------------
\* The search: one call of get_distribution
\* ------------------------------------------------------------------------

InitGet == InitIter

\* get_distribution(name, path), as call c
CallGetDistribution(c) ==
    /\ gd[c] = NotCalled
    /\ \E name \in RequestNames :
          gd' = [gd EXCEPT ![c] = [kind |-> "called", name |-> name,
                                   result |-> get_distribution(name, path, fs)]]
    /\ UNCHANGED <<fs, path, it, yielded, raised, it2, yielded2, raised2, parseVars, handleVars>>

\* One call.
NextGet == CallGetDistribution("first")

SpecGet == InitGet /\ [][NextGet]_vars

\* get_distribution(name, path), once more
CallGetDistributionAgain ==
    /\ gd["first"] /= NotCalled
    /\ CallGetDistribution("second")

\* Two calls, one after the other.
NextGetTwice == CallGetDistribution("first") \/ CallGetDistributionAgain

SpecGetTwice == InitGet /\ [][NextGetTwice]_vars

\* list(iter_distributions(p)) as far as it gets: the distributions yielded
\* (items) and how the iteration ended (end: StopIteration or an exception).
RECURSIVE ListFrom(_, _, _)
ListFrom(g, p, f) ==
    LET r == GeneratorNext(g, p, f)
    IN  IF r.out.kind /= "Distribution"
        THEN [items |-> <<>>, end |-> r.out]
        ELSE LET rest == ListFrom(r.gen, p, f)
             IN  [items |-> <<r.out>> \o rest.items, end |-> rest.end]

IterationOrder == ListFrom(NewGenerator, path, fs)

\* Item k of the iteration order has the normalized name of the request.
IsMatch(items, k, name) ==
    canonicalize_name(items[k].name) = canonicalize_name(name)

\* C2: a call of get_distribution that returns, returns the first
\* distribution of the iteration order whose normalized name is that of the
\* request; a call that raises DistributionNotFoundError does so with the
\* name as passed, after an iteration that ended normally without a match;
\* and an iteration that ends normally without a match makes the call raise
\* DistributionNotFoundError.
C2_FirstMatchOrNotFound ==
    gd["first"] /= NotCalled =>
        LET name == gd["first"].name
            result == gd["first"].result
            order == IterationOrder
            items == order.items
            exhausted == /\ order.end.kind = "StopIteration"
                         /\ \A k \in DOMAIN items : ~IsMatch(items, k, name)
        IN  /\ result.kind = "Distribution" =>
                  \E k \in DOMAIN items :
                      /\ items[k] = result
                      /\ IsMatch(items, k, name)
                      /\ \A m \in 1..(k - 1) : ~IsMatch(items, m, name)
            /\ result.kind = "DistributionNotFoundError" =>
                  exhausted /\ result.arg = name
            /\ exhausted =>
                  result = [kind |-> "DistributionNotFoundError", arg |-> name]

\* C2 witness: the call raised DistributionNotFoundError for "zz" after an
\* iteration over two distributions.
C2_Witness ==
    /\ gd["first"] /= NotCalled
    /\ gd["first"].result = [kind |-> "DistributionNotFoundError", arg |-> Str("zz")]
    /\ Len(IterationOrder.items) = 2

\* C3: two calls of get_distribution with the same search path whose names
\* have the same normalized form end the same way: both return the same
\* distribution, or both raise DistributionNotFoundError, or both pass on
\* the same exception of the iteration.
C3_SameOutcomeForSameNormalizedName ==
    (/\ gd["first"] /= NotCalled
     /\ gd["second"] /= NotCalled
     /\ canonicalize_name(gd["first"].name) = canonicalize_name(gd["second"].name)) =>
        LET r1 == gd["first"].result
            r2 == gd["second"].result
        IN  /\ r1.kind = r2.kind
            /\ r1.kind /= "DistributionNotFoundError" => r1 = r2

\* C3 witness: asked for "A.B" and for "a-b", the two calls returned the same
\* distribution "A_b".
C3_Witness ==
    /\ gd["first"] /= NotCalled
    /\ gd["second"] /= NotCalled
    /\ gd["first"].name = Str("A.B")
    /\ gd["second"].name = Str("a-b")
    /\ gd["first"].result.kind = "Distribution"
    /\ gd["first"].result.name = Str("A_b")
    /\ gd["second"].result = gd["first"].result

\* ------------------------------------------------------------------------
\* The search: two calls of iter_distributions, consumed interleaved
\* ------------------------------------------------------------------------

\* iter_distributions(path) is called a second time, at any point of the
\* first call's iteration.
CallIterDistributionsAgain ==
    /\ it2 = NotCalled
    /\ it2' = CallFrame(it)
    /\ UNCHANGED <<fs, path, it, yielded, raised, gd, yielded2, raised2,
                   parseVars, handleVars>>

\* next(it2): the consumer takes the next distribution of the second call.
IterNextSecond ==
    /\ it2 /= NotCalled
    /\ ~it2.finished
    /\ LET r == GeneratorNext(it2, path, fs)
       IN  /\ it2' = r.gen
           /\ yielded2' = IF r.out.kind = "Distribution"
                          THEN Append(yielded2, r.out) ELSE yielded2
           /\ raised2' = IF r.out.kind \in {"Distribution", "StopIteration"}
                         THEN raised2 ELSE r.out
    /\ UNCHANGED <<fs, path, it, yielded, raised, gd, parseVars, handleVars>>

NextIterTwice == IterNext \/ CallIterDistributionsAgain \/ IterNextSecond

SpecIterTwice == InitIter /\ [][NextIterTwice]_vars

IsPrefix(a, b) == Len(a) <= Len(b) /\ SubSeq(b, 1, Len(a)) = a

\* A call's iteration is that of a call made alone: what it has yielded is
\* the beginning of the alone sequence, the names it has seen are those of
\* its own yields, and when it has ended it has yielded the whole sequence
\* and ended the same way.
RunsAsAlone(frame, ys, exc, alone) ==
    /\ IsPrefix(ys, alone.items)
    /\ frame.seen = {canonicalize_name(ys[k].name) : k \in DOMAIN ys}
    /\ frame.finished =>
          /\ ys = alone.items
          /\ IF alone.end = StopIteration THEN exc = NotCalled ELSE exc = alone.end

\* C11: the deduplication state belongs to one call.  Two calls of
\* iter_distributions on the same path and file system, the second made at
\* any point of the first and the two consumed in any interleaving, each
\* yield the sequence a call made alone yields: no name that one call has
\* yielded is suppressed in the other, and when both have ended they have
\* yielded the same sequence and ended the same way.
C11_DedupStateIsPerCall ==
    LET alone == IterationOrder
    IN  /\ RunsAsAlone(it, yielded, raised, alone)
        /\ it2 /= NotCalled =>
              /\ RunsAsAlone(it2, yielded2, raised2, alone)
              /\ it.finished /\ it2.finished =>
                    yielded = yielded2 /\ raised = raised2

\* Both generators are suspended in mid-iteration, the first after a yield,
\* the second having overtaken it and yielded the name the first has seen.
C11_Witness ==
    /\ it2 /= NotCalled
    /\ ~it.finished
    /\ ~it2.finished
    /\ Len(yielded) >= 1
    /\ Len(yielded2) > Len(yielded)
    /\ it.seen \subseteq it2.seen

\* ------------------------------------------------------------------------
\* The search: an iteration and a lookup over the same path
\* ------------------------------------------------------------------------

\* The generator is consumed step by step, and get_distribution is called.
NextSearch == IterNext \/ CallGetDistribution("first")

SpecSearch == InitIter /\ [][NextSearch]_vars

\* The entries the search comes to, in the order it comes to them: of each
\* directory of the path, in path order, the listing.
RECURSIVE WalkFrom(_)
WalkFrom(q) ==
    IF q > Len(path) THEN <<>>
    ELSE (IF IsDir(path[q])
          THEN [k \in DOMAIN fs[path[q]] |-> <<path[q], fs[path[q]][k]>>]
          ELSE <<>>) \o WalkFrom(q + 1)

EntryStem(entry) == SubSeq(entry, 1, Len(entry) - Len(DistInfo))

EntryVersionText(entry) ==
    SubSeq(EntryStem(entry), IndexOf(EntryStem(entry), "-") + 1, Len(EntryStem(entry)))

\* The entry's stem has no '-', or what follows its first '-' is no version.
IsMalformedEntry(entry) ==
    \/ Count(EntryStem(entry), "-") = 0
    \/ ~VersionIsValid(EntryVersionText(entry))

\* The place in the walk w of the first malformed entry, 0 if there is none.
FirstMalformed(w) ==
    IF \E k \in DOMAIN w : IsMalformedEntry(w[k][2])
    THEN CHOOSE k \in DOMAIN w :
            /\ IsMalformedEntry(w[k][2])
            /\ \A k2 \in 1..(k - 1) : ~IsMalformedEntry(w[k2][2])
    ELSE 0

\* The error the entry makes from_path raise.
IsErrorOfEntry(exc, entry) ==
    IF Count(EntryStem(entry), "-") = 0
    THEN exc.kind = "ValueError" /\ exc.arg = EntryStem(entry)
    ELSE exc.kind = "InvalidVersion" /\ exc.arg = EntryVersionText(entry)

\* The normalized names of the entries of w before place m.
NamesBefore(w, m) == {EntryNormalizedName(w[k][2]) : k \in 1..(m - 1)}

\* C13: a malformed entry is not skipped.  When the search comes to a
\* '*.dist-info' entry whose stem has no '-' or whose version is none, the
\* iteration ends there with that entry's error: it never ends normally,
\* everything yielded is an entry before the malformed one, and once it has
\* raised, each name before the malformed entry has been yielded.  A call of
\* get_distribution for a name that no entry before the malformed one has
\* raises that error: it returns no distribution and raises no
\* DistributionNotFoundError.
C13_MalformedEntryEndsTheSearch ==
    LET w == WalkFrom(1)
        m == FirstMalformed(w)
    IN  m > 0 =>
          /\ \A a \in DOMAIN yielded : \E k \in 1..(m - 1) : w[k] = yielded[a].path
          /\ it.finished => raised /= NotCalled
          /\ raised /= NotCalled =>
                /\ IsErrorOfEntry(raised, w[m][2])
                /\ it.finished
                /\ {canonicalize_name(yielded[a].name) : a \in DOMAIN yielded}
                      = NamesBefore(w, m)
          /\ gd["first"] /= NotCalled
               /\ canonicalize_name(gd["first"].name) \notin NamesBefore(w, m) =>
                IsErrorOfEntry(gd["first"].result, w[m][2])

\* The iteration yielded a distribution and then raised at a malformed
\* entry, and get_distribution for a name that an entry after the malformed
\* one has, and none before it, raised the same error.
C13_Witness ==
    LET w == WalkFrom(1)
        m == FirstMalformed(w)
    IN  /\ m > 0
        /\ Len(yielded) >= 1
        /\ raised /= NotCalled
        /\ gd["first"] /= NotCalled
        /\ canonicalize_name(gd["first"].name) \notin NamesBefore(w, m)
        /\ \E k \in (m + 1)..Len(w) :
              /\ ~IsMalformedEntry(w[k][2])
              /\ EntryNormalizedName(w[k][2]) = canonicalize_name(gd["first"].name)
        /\ gd["first"].result = raised

\* ------------------------------------------------------------------------
\* The handles: a wheel, the distribution unpacked from it, and calls on both
\* ------------------------------------------------------------------------

\* The archive holds any of the files; the *.dist-info directory of the
\* distribution was unpacked from it.
InitHandle ==
    /\ dfiles \in SUBSET FileNames
    /\ zmembers = {<<ArchiveDistInfo, n>> : n \in dfiles}
    /\ wpath \in WheelPaths
    /\ wd = NoHandle
    /\ zip = ZipUnopened
    /\ scope = OutOfScope
    /\ last = NotCalled
    /\ ParseIdle
    /\ SearchIdle

\* A call on a handle: the method, its argument, the files there were, whether
\* the archive had been released, and what the call returned or raised.
Called(on, op, arg, files, released, out) ==
    [kind |-> "called", on |-> on, op |-> op, arg |-> arg, files |-> files,
     released |-> released, out |-> out]

\* (path / name).unlink(): a file of the *.dist-info directory is removed.
Unlink ==
    /\ \E name \in dfiles : dfiles' = dfiles \ {name}
    /\ UNCHANGED <<zmembers, wpath, wd, zip, scope, last, parseVars, searchVars>>

\* A method of TheDistribution is called.
DistributionCall ==
    /\ \E op \in {"get_wheel", "get_record", "get_metadata", "get_entry_points"} :
          last' = Called("Distribution", op, "", dfiles, FALSE,
                    CASE op = "get_wheel" -> Distribution_get_wheel(dfiles)
                      [] op = "get_record" -> Distribution_get_record(TheDistribution, dfiles)
                      [] op = "get_metadata" -> Distribution_get_metadata(dfiles)
                      [] op = "get_entry_points" -> Distribution_get_entry_points(dfiles))
    /\ UNCHANGED <<dfiles, zmembers, wpath, wd, zip, scope, parseVars, searchVars>>

\* WheelDistribution.from_path(wpath)
WheelFromPath ==
    /\ wd = NoHandle
    /\ LET r == WheelDistribution_from_path(wpath, zip)
       IN  /\ wd' = r.handle
           /\ zip' = r.zip
           /\ last' = Called("WheelDistribution", "from_path", "", {}, FALSE, r.out)
    /\ UNCHANGED <<dfiles, zmembers, wpath, scope, parseVars, searchVars>>

\* The files of the archive under the directory wd looks in.
WheelFiles == {n \in FileNames : MemberPath(wd, n) \in zmembers}

\* A method of wd is called, inside or outside a with statement.
WheelCall ==
    /\ wd /= NoHandle
    /\ \/ \E op \in {"get_wheel", "get_record", "get_metadata", "get_entry_points"} :
            last' = Called("WheelDistribution", op, "", WheelFiles, zip.fp = "closed",
                      CASE op = "get_wheel" -> WheelDistribution_get_wheel(wd, zip, zmembers)
                        [] op = "get_record" -> WheelDistribution_get_record(wd, zip, zmembers)
                        [] op = "get_metadata" -> WheelDistribution_get_metadata(wd, zip, zmembers)
                        [] op = "get_entry_points" ->
                              WheelDistribution_get_entry_points(wd, zip, zmembers))
       \/ \E name \in FileNames :
            last' = Called("WheelDistribution", "read_file", name, WheelFiles,
                      zip.fp = "closed", WheelDistribution_read_file(wd, zip, zmembers, name))
       \/ \E name \in FileNames :
            last' = Called("WheelDistribution", "has_file", name, WheelFiles,
                      zip.fp = "closed", WheelDistribution_has_file(wd, zip, zmembers, name))
    /\ UNCHANGED <<dfiles, zmembers, wpath, wd, zip, scope, parseVars, searchVars>>

\* "with wd as target:" is entered: __enter__ is called and its result bound.
WithEnter ==
    /\ wd /= NoHandle
    /\ scope.pc /= "body"
    /\ scope' = [pc |-> "body", target |-> WheelDistribution_enter(wd),
                 body |-> "none", propagated |-> None]
    /\ last' = Called("WheelDistribution", "__enter__", "", WheelFiles,
                      zip.fp = "closed", WheelDistribution_enter(wd))
    /\ UNCHANGED <<dfiles, zmembers, wpath, wd, zip, parseVars, searchVars>>

\* The body of the with statement ends: __exit__ is called; an exception of
\* the body goes on to the caller unless __exit__ returns a true value.
WithLeave ==
    /\ scope.pc = "body"
    /\ \E how \in BodyEnds :
          LET r == WheelDistribution_exit(zip)
          IN  /\ zip' = r.zip
              /\ scope' = [scope EXCEPT
                             !.pc = "left",
                             !.body = how,
                             !.propagated = IF how = "raise" /\ r.ret = None
                                            THEN BodyError ELSE None]
    /\ UNCHANGED <<dfiles, zmembers, wpath, wd, last, parseVars, searchVars>>

NextHandle ==
    \/ Unlink
    \/ DistributionCall
    \/ WheelFromPath
    \/ WheelCall
    \/ WithEnter
    \/ WithLeave

SpecHandle == InitHandle /\ [][NextHandle]_vars

\* ------------------------------------------------------------------------
\* Claims about the handles (checked under SpecHandle)
\* ------------------------------------------------------------------------

\* The outcome of a call is an exception.
IsError(out) == out.kind \in {"FileNotFoundError", "ValueError", "InvalidWheelFilename",
                              "InvalidVersion", "RuntimeError"}

\* C4: the with statement binds the handle it was entered on; once it is
\* left, however its body ended, the archive is closed and has been released
\* exactly once, and an exception raised in the body has gone on to the
\* caller (and nothing has when the body raised nothing).
C4_ScopeReleasesOnce ==
    /\ scope.pc = "body" => scope.target = wd
    /\ scope.pc = "left" =>
          /\ scope.target = wd
          /\ zip.fp = "closed"
          /\ zip.releases = 1
          /\ scope.propagated = IF scope.body = "raise" THEN BodyError ELSE None

\* C4 witness: a with statement whose body raised has been left, the archive
\* is closed and the exception has gone on.
C4_Witness ==
    /\ scope.pc = "left"
    /\ scope.body = "raise"
    /\ scope.propagated = BodyError
    /\ zip = [fp |-> "closed", releases |-> 1]

\* C5: every read_file, get_metadata, get_wheel and get_entry_points called
\* on a WheelDistribution whose archive has been released, and every entering
\* of a with statement on it, fails with an error.
C5_UseAfterReleaseFails ==
    (/\ last /= NotCalled
     /\ last.on = "WheelDistribution"
     /\ last.released
     /\ last.op \in {"read_file", "get_metadata", "get_wheel", "get_entry_points",
                     "__enter__"}) =>
        IsError(last.out)

\* C9: Distribution.get_wheel returns None when there is no WHEEL file and
\* WheelDistribution.get_wheel, on an open archive, raises FileNotFoundError
\* when there is no WHEEL member; with the file there, both return the
\* mapping wheel.loads makes of its content.
C9_GetWheelAsymmetry ==
    (/\ last /= NotCalled
     /\ last.op = "get_wheel"
     /\ ~last.released) =>
        IF "WHEEL" \in last.files
        THEN last.out = wheel_loads(FileText("WHEEL"))
        ELSE IF last.on = "Distribution"
        THEN last.out = None
        ELSE last.out = [kind |-> "FileNotFoundError", arg |-> "WHEEL"]

\* C9 witness: get_wheel on an open WheelDistribution without a WHEEL member
\* raised FileNotFoundError, where the directory unpacked from the same
\* archive has no WHEEL file either.
C9_Witness ==
    /\ last /= NotCalled
    /\ last.on = "WheelDistribution"
    /\ last.op = "get_wheel"
    /\ ~last.released
    /\ last.out.kind = "FileNotFoundError"
    /\ Distribution_get_wheel(dfiles) = None

\* The entries of a get_record outcome are those of the RECORD file, in
\* order, each owned by owner.
IsRecordOwnedBy(out, owner) ==
    /\ out.kind = "list"
    /\ Len(out.items) = Len(RecordLines)
    /\ \A k \in DOMAIN out.items :
          /\ out.items[k].path = RecordLines[k].path
          /\ out.items[k].distro = owner

C12_ParseBeforeOpen ==
    LET p == ParseWheelFilename(wpath)
    IN  /\ p.kind /= "ok" => wd = NoHandle /\ zip = ZipUnopened
        /\ last.kind = "called" /\ last.op = "from_path" =>
              IF p.kind /= "ok"
              THEN /\ last.out = p
                   /\ p.kind \in {"InvalidWheelFilename", "InvalidVersion"}
              ELSE /\ last.out = wd
                   /\ wd.kind = "WheelDistribution"
                   /\ zip = ZipOpen

\* from_path was called on a filename whose version is none, the last thing
\* the parser looks at: it raised, and there is no handle and no open
\* archive.
C12_Witness ==
    /\ last.kind = "called"
    /\ last.op = "from_path"
    /\ last.out.kind = "InvalidVersion"
    /\ wd = NoHandle
    /\ zip = ZipUnopened

====
